---- MODULE Spec2Model ----
(***************************************************************************)
(* export2md (src/index.js): a command-line tool that walks a directory    *)
(* and writes one Markdown document with a tree diagram                    *)
(* (generateTreeStructure) and a content outline                           *)
(* (generateProjectStructure).                                             *)
(*                                                                         *)
(* The file system is the environment: it is built entry by entry          *)
(* (CreateEntry) and then the program is run once on it (Run), with the    *)
(* command line drawn from its scenario.  Text is modelled as TLA+ strings, a  *)
(* multi-line text as the sequence of its lines.  The non-ASCII glyphs of  *)
(* the source are written with ASCII stand-ins of the same length:         *)
(*   pipe "|", tee "+", last "L", dash "-", folder icon "D", file icon "F", *)
(* and a backquote is written "~".                                         *)
(***************************************************************************)
EXTENDS Integers, Sequences, FiniteSets, TLC

VARIABLES
    scenario,  \* the kind of tree and command lines this behaviour draws from
    fs,        \* the directory tree under the root, in listing (pre-)order
    pc,        \* "idle" before the process starts, "exited" after it ends
    argv,      \* process.argv.slice(2) of the run
    options,   \* what parseArguments returned (its value so far, if it did not)
    stdout,    \* lines written with console.log
    stderr,    \* lines written with console.error or by an uncaught exception
    exitCode,  \* the exit code of the process (-1 while it has none)
    traversed, \* TRUE once saveProjectStructure has started the traversals
    treeStructure,     \* the lines returned by generateTreeStructure
    detailedStructure, \* the lines returned by generateProjectStructure
    opened,    \* the paths handed to fs.readFileSync, in call order
    disk       \* the files written by fs.writeFileSync: <<path, lines>> pairs

vars == <<scenario, fs, pc, argv, options, stdout, stderr, exitCode, traversed, treeStructure,
          detailedStructure, opened, disk>>

----------------------------------------------------------------------------
(* Bounds of the model *)

\* the number of entries the environment creates under the root
MaxNodes == 4

----------------------------------------------------------------------------
(* JavaScript strings, numbers and arrays *)

\* the i-th character of a string
Char(s, i) == SubSeq(s, i, i)

\* String.prototype.startsWith
startsWith(s, p) == Len(s) >= Len(p) /\ SubSeq(s, 1, Len(p)) = p

\* Array.prototype.includes
includes(arr, x) == \E i \in 1..Len(arr) : arr[i] = x

UpperCase == <<"A","B","C","D","E","F","G","H","I","J","K","L","M",
               "N","O","P","Q","R","S","T","U","V","W","X","Y","Z">>
LowerCase == <<"a","b","c","d","e","f","g","h","i","j","k","l","m",
               "n","o","p","q","r","s","t","u","v","w","x","y","z">>

LowerChar(c) ==
    IF includes(UpperCase, c)
    THEN LowerCase[CHOOSE i \in 1..Len(UpperCase) : UpperCase[i] = c]
    ELSE c

\* String.prototype.toLowerCase
RECURSIVE toLowerCase(_)
toLowerCase(s) ==
    IF Len(s) = 0 THEN "" ELSE LowerChar(Char(s, 1)) \o toLowerCase(Tail(s))

\* String.prototype.repeat
RECURSIVE repeat(_, _)
repeat(s, n) == IF n <= 0 THEN "" ELSE s \o repeat(s, n - 1)

\* String.prototype.split for a one-character separator
RECURSIVE splitFrom(_, _, _)
splitFrom(s, sep, cur) ==
    IF Len(s) = 0 THEN <<cur>>
    ELSE IF Char(s, 1) = sep THEN <<cur>> \o splitFrom(Tail(s), sep, "")
    ELSE splitFrom(Tail(s), sep, cur \o Char(s, 1))

split(s, sep) == splitFrom(s, sep, "")

Digits == <<"0","1","2","3","4","5","6","7","8","9">>
IsDigit(c) == includes(Digits, c)
DigitValue(c) == (CHOOSE i \in 1..Len(Digits) : Digits[i] = c) - 1

\* a JavaScript number: NaN, or an integer
NaN == [nan |-> TRUE, v |-> 0]
Num(n) == [nan |-> FALSE, v |-> n]
\* a > b on numbers: false when either is NaN
Greater(a, b) == ~a.nan /\ ~b.nan /\ a.v > b.v
\* a !== b on numbers: NaN differs from everything
StrictNotEqual(a, b) == a.nan \/ b.nan \/ a.v # b.v
\* a * b on numbers
Times(a, b) == IF a.nan \/ b.nan THEN NaN ELSE Num(a.v * b.v)

\* the value of the longest prefix of digits of s, given the digits read so far
RECURSIVE parseDigits(_, _)
parseDigits(s, acc) ==
    IF Len(s) = 0 \/ ~IsDigit(Char(s, 1)) THEN acc
    ELSE parseDigits(Tail(s), 10 * acc + DigitValue(Char(s, 1)))

\* parseInt of an argument; arg is <<>> for undefined and <<s>> for a string
parseInt(arg) ==
    IF arg = <<>> THEN NaN
    ELSE LET s == arg[1]
             neg == startsWith(s, "-")
             body == IF neg \/ startsWith(s, "+") THEN Tail(s) ELSE s
         IN IF Len(body) = 0 \/ ~IsDigit(Char(body, 1)) THEN NaN
            ELSE Num((IF neg THEN -1 ELSE 1) * parseDigits(body, 0))

\* the decimal digits of a natural number
RECURSIVE natToString(_)
natToString(n) ==
    IF n < 10 THEN Digits[n + 1]
    ELSE natToString(n \div 10) \o Digits[(n % 10) + 1]

\* (bytes / 1024).toFixed(2): the nearest hundredth, the larger one on a tie
\* (bytes / 1024 is exact in binary floating point)
toFixed2OfKilo(bytes) ==
    LET hundredths == (bytes * 100 + 512) \div 1024
        frac == hundredths % 100
    IN natToString(hundredths \div 100) \o "."
         \o Digits[(frac \div 10) + 1] \o Digits[(frac % 10) + 1]

\* the index of the last "." of s, 0 if there is none
RECURSIVE lastDot(_, _)
lastDot(s, i) ==
    IF i = 0 THEN 0 ELSE IF Char(s, i) = "." THEN i ELSE lastDot(s, i - 1)

\* path.extname of a file name: from the last "." on, "" when there is no
\* "." or the only one is the first character
extname(name) ==
    LET i == lastDot(name, Len(name))
    IN IF i <= 1 THEN "" ELSE SubSeq(name, i, Len(name))

\* path.join(dir, item) for a relative dir: "." is dropped
join(dir, item) == IF dir = "." THEN item ELSE dir \o "/" \o item

----------------------------------------------------------------------------
(* Configuration and tables *)

defaultConfig ==
    [excludedFolders |-> <<"node_modules", ".git", "dist", "build", "coverage", ".next">>,
     excludedFiles |-> <<".DS_Store", "thumbs.db", ".env", ".gitignore", "package-lock.json">>,
     binaryExtensions |-> <<".jpg", ".jpeg", ".png", ".gif", ".pdf", ".zip", ".tar", ".gz">>,
     maxDepth |-> Num(-1),
     maxFileSize |-> Num(1024 * 1024),
     includeHidden |-> FALSE]

\* { ...defaults, ...overrides }
spread(defaults, overrides) == overrides @@ defaults

languageMap ==
    [ext \in {".js", ".jsx", ".ts", ".tsx", ".html", ".css", ".scss", ".json", ".xml",
              ".md", ".py", ".java", ".php", ".sql", ".sh", ".yaml", ".yml"} |->
        CASE ext = ".js" -> "javascript"
          [] ext = ".jsx" -> "jsx"
          [] ext = ".ts" -> "typescript"
          [] ext = ".tsx" -> "tsx"
          [] ext = ".html" -> "html"
          [] ext = ".css" -> "css"
          [] ext = ".scss" -> "scss"
          [] ext = ".json" -> "json"
          [] ext = ".xml" -> "xml"
          [] ext = ".md" -> "markdown"
          [] ext = ".py" -> "python"
          [] ext = ".java" -> "java"
          [] ext = ".php" -> "php"
          [] ext = ".sql" -> "sql"
          [] ext = ".sh" -> "bash"
          [] ext = ".yaml" -> "yaml"
          [] ext = ".yml" -> "yaml"]

treeChars == [pipe |-> "|", tee |-> "+", last |-> "L", blank |-> " ", dash |-> "-"]

\* the three backquotes that open and close a fenced block
fence == "~~~"

folderIcon == "D"
fileIcon == "F"

getLanguageFromExtension(filename) ==
    LET ext == toLowerCase(extname(filename))
    IN IF ext \in DOMAIN languageMap THEN languageMap[ext] ELSE "plaintext"

\* the lines of the fenced block; content is the sequence of the segments of
\* the file's text between its newline characters
formatFileContent(content, language) ==
    <<fence \o language>> \o content \o <<fence>>

\* the lines of the text prefix + text, where text is given by its lines: the
\* prefix lands on the first line only
prefixText(prefix, lines) == <<prefix \o Head(lines)>> \o Tail(lines)

----------------------------------------------------------------------------
(* The file system *)

\* What can go wrong with an entry:
\*   "none"    nothing;
\*   "nostat"  statSync throws (a dangling symbolic link);
\*   "gone2"   the entry is removed once the tree renderer's filter has seen
\*             it: every later call on it throws;
\*   "noperm"  statSync works, readdirSync and readFileSync throw;
\*   "gone3"   a file removed between the zero-byte sniff and the content read.
Faults == {"none", "nostat", "gone2", "noperm", "gone3"}

File(name, size, content, nul, fault) ==
    [name |-> name, isDir |-> FALSE, size |-> size, content |-> content,
     nul |-> nul, fault |-> fault]

Dir(name, fault) ==
    [name |-> name, isDir |-> TRUE, size |-> 0, content |-> <<>>,
     nul |-> FALSE, fault |-> fault]

\* The entries the environment can create, and the command lines the tool is
\* run with, by scenario.
Scenarios ==
    [names |->
        [entries |-> { File("a.js", 1024, <<"x", "y">>, FALSE, "none"),
                       File(".env", 3, <<"k=v">>, FALSE, "none"),
                       File("thumbs.db", 3, <<"x">>, FALSE, "none"),
                       Dir("src", "none"),
                       Dir(".git", "none") },
         args |-> { <<>>,
                    <<"--include-hidden">>,
                    <<"-d", "0">>,
                    <<"--depth", "1", "--include-hidden">>,
                    <<"-e", "src,tmp", "-o", "out.md">> }],
     sizes |->
        [entries |-> { File("a.js", 1024, <<"x", "y">>, FALSE, "none"),
                       File("B.PNG", 1025, <<"x">>, FALSE, "none"),
                       File("n.md", 1025, <<"x">>, TRUE, "none"),
                       File("big.md", 1025, <<"x", "">>, FALSE, "none"),
                       Dir("src", "none") },
         args |-> { <<>>, <<"-s", "1">> }],
     reads |->
        [entries |-> { File("a.js", 1024, <<"x", "y">>, FALSE, "none"),
                       File("B.PNG", 1025, <<"x">>, FALSE, "none"),
                       File("p.md", 3, <<"x">>, FALSE, "noperm"),
                       File("g.md", 3, <<"x">>, FALSE, "gone3"),
                       Dir("src", "none") },
         args |-> { <<>>, <<"--max-size", "1">> }],
     stats |->
        [entries |-> { File("a.js", 1024, <<"x", "y">>, FALSE, "none"),
                       File("l.md", 3, <<"x">>, FALSE, "nostat"),
                       File("v.md", 3, <<"x">>, FALSE, "gone2"),
                       Dir("src", "none"),
                       Dir("priv", "noperm") },
         args |-> { <<>>, <<"nope">> }],
     usage |->
        [entries |-> { File("a.js", 1024, <<"x", "y">>, FALSE, "none"),
                       Dir("src", "none") },
         args |-> { <<"src">>, <<"-h">>, <<"--bogus">>, <<"-d", "1", "-x">>,
                    <<"-o">>, <<"-d">>, <<"-e">>, <<"-s">>, <<"src", "--output">> }]]

\* the node of a path given on the command line: 0 is the root ".", -1 a path
\* that does not exist
lookup(fsys, path) ==
    IF path = "." THEN 0
    ELSE IF \E i \in 1..Len(fsys) : fsys[i].parent = 0 /\ fsys[i].name = path
    THEN CHOOSE i \in 1..Len(fsys) : fsys[i].parent = 0 /\ fsys[i].name = path
    ELSE -1

\* a call that returned val, and a call that threw an Error with this message
Returned(val) == [threw |-> FALSE, message |-> "", val |-> val]
Threw(message) == [threw |-> TRUE, message |-> message, val |-> <<>>]

\* fs.readdirSync(path) where path is node dir: the nodes of its entries
readdirSync(fsys, dir, path) ==
    IF dir = -1 \/ (dir > 0 /\ fsys[dir].fault \in {"nostat", "gone2"})
    THEN Threw("ENOENT: no such file or directory, scandir '" \o path \o "'")
    ELSE IF dir > 0 /\ ~fsys[dir].isDir
    THEN Threw("ENOTDIR: not a directory, scandir '" \o path \o "'")
    ELSE IF dir > 0 /\ fsys[dir].fault = "noperm"
    THEN Threw("EACCES: permission denied, scandir '" \o path \o "'")
    ELSE Returned(SelectSeq([i \in 1..Len(fsys) |-> i],
                            LAMBDA i : fsys[i].parent = dir))

\* fs.statSync(path) where path is node i; when is "filter" for the call of
\* the tree renderer's filter
statSync(fsys, i, path, when) ==
    IF fsys[i].fault = "nostat" \/ (fsys[i].fault = "gone2" /\ when # "filter")
    THEN Threw("ENOENT: no such file or directory, stat '" \o path \o "'")
    ELSE Returned([isDirectory |-> fsys[i].isDir, size |-> fsys[i].size])

\* fs.readFileSync(path) where path is node i; when is "sniff" for the call of
\* isBinaryFile and "content" for the one that reads the text
readFileSync(fsys, i, path, when) ==
    IF fsys[i].fault \in {"nostat", "gone2"} \/ (fsys[i].fault = "gone3" /\ when = "content")
    THEN Threw("ENOENT: no such file or directory, open '" \o path \o "'")
    ELSE IF fsys[i].fault = "noperm"
    THEN Threw("EACCES: permission denied, open '" \o path \o "'")
    ELSE Returned([content |-> fsys[i].content, nul |-> fsys[i].nul])

\* isBinaryFile(filePath): some byte of the file is zero
isBinaryFile(fsys, i, filePath) ==
    LET buffer == readFileSync(fsys, i, filePath, "sniff")
    IN IF buffer.threw THEN buffer ELSE Returned(buffer.val.nul)

----------------------------------------------------------------------------
(* Output lines *)

\* A line of output: its text, the node of the entry it was emitted for
\* (for an error line, the directory that could not be read) and its role:
\* "entry" for the line of the entry itself, "body" for a line of a file's
\* disclosure block, "error" for an error line.
Line(entry, role, text) == [entry |-> entry, role |-> role, text |-> text]

\* the lines of a multi-line text emitted for one entry
Body(entry, texts) == [k \in 1..Len(texts) |-> Line(entry, "body", texts[k])]

----------------------------------------------------------------------------
(* generateTreeStructure *)

\* a variant that forgets excludedFiles
treeKeeps_EveryFile(item, isDirectory, finalConfig) ==
    isDirectory => ~includes(finalConfig.excludedFolders, item)

\* a variant that forgets excludedFolders
treeKeeps_EveryFolder(item, isDirectory, finalConfig) ==
    ~isDirectory => ~includes(finalConfig.excludedFiles, item)

\* the value the filter callback returns for an item that is not hidden away
treeKeeps(item, isDirectory, finalConfig) ==
    IF isDirectory
    THEN ~includes(finalConfig.excludedFolders, item)
    ELSE ~includes(finalConfig.excludedFiles, item)

\* items.filter(...) from index i on: the items kept, unless a statSync throws
RECURSIVE treeFilter(_, _, _, _, _)
treeFilter(fsys, rootPath, items, i, finalConfig) ==
    IF i > Len(items) THEN Returned(<<>>)
    ELSE LET item == fsys[items[i]].name
             isHidden == startsWith(item, ".")
         IN IF isHidden /\ ~finalConfig.includeHidden
            THEN treeFilter(fsys, rootPath, items, i + 1, finalConfig)
            ELSE LET stats == statSync(fsys, items[i], join(rootPath, item), "filter")
                     rest == treeFilter(fsys, rootPath, items, i + 1, finalConfig)
                 IN IF stats.threw THEN stats
                    ELSE IF rest.threw THEN rest
                    ELSE IF treeKeeps(item, stats.val.isDirectory, finalConfig)
                    THEN Returned(<<items[i]>> \o rest.val)
                    ELSE rest

treeConnector(isLastItem) == IF isLastItem THEN treeChars.last ELSE treeChars.tee

treeItemPrefix(prefix, isLastItem) ==
    prefix \o treeConnector(isLastItem) \o treeChars.dash \o " "

\* a variant that draws the continuation bar under a last item too
treeChildPrefix_AlwaysBar(prefix, isLastItem) == prefix \o treeChars.pipe \o "  "

treeChildPrefix(prefix, isLastItem) ==
    prefix \o (IF isLastItem THEN treeChars.blank ELSE treeChars.pipe) \o "  "

\* the catch clause of generateTreeStructure: what it returns for the
\* directory dir when error was thrown
treeCatch(dir, error) == <<Line(dir, "error", "Erreur: " \o error.message)>>

RECURSIVE generateTreeStructure(_, _, _, _, _)
RECURSIVE treeForEach(_, _, _, _, _, _, _)

\* filteredItems.forEach(...) from index on, treeOutput being the lines so far
treeForEach(fsys, rootPath, filteredItems, index, config, prefix, treeOutput) ==
    IF index > Len(filteredItems) THEN Returned(treeOutput)
    ELSE LET node == filteredItems[index]
             item == fsys[node].name
             isLastItem == index = Len(filteredItems)
             fullPath == join(rootPath, item)
             stats == statSync(fsys, node, fullPath, "render")
             itemPrefix == treeItemPrefix(prefix, isLastItem)
             childPrefix == treeChildPrefix(prefix, isLastItem)
         IN IF stats.threw THEN stats
            ELSE IF stats.val.isDirectory
            THEN treeForEach(fsys, rootPath, filteredItems, index + 1, config, prefix,
                     treeOutput
                       \o <<Line(node, "entry", itemPrefix \o folderIcon \o " " \o item \o "/")>>
                       \o generateTreeStructure(fsys, node, fullPath, config, childPrefix))
            ELSE treeForEach(fsys, rootPath, filteredItems, index + 1, config, prefix,
                     treeOutput
                       \o <<Line(node, "entry", itemPrefix \o fileIcon \o " " \o item)>>)

\* generateTreeStructure(rootPath, config, prefix) where rootPath is node dir
\* (the parameter isLast of the source is never read)
generateTreeStructure(fsys, dir, rootPath, config, prefix) ==
    LET finalConfig == spread(defaultConfig, config)
        items == readdirSync(fsys, dir, rootPath)
        filteredItems == treeFilter(fsys, rootPath, items.val, 1, finalConfig)
        done == treeForEach(fsys, rootPath, filteredItems.val, 1, config, prefix, <<>>)
    IN IF items.threw THEN treeCatch(dir, items)
       ELSE IF filteredItems.threw THEN treeCatch(dir, filteredItems)
       ELSE IF done.threw THEN treeCatch(dir, done)
       ELSE done.val

----------------------------------------------------------------------------
(* generateProjectStructure *)

directoryBullet(indent, item) == indent \o "- " \o folderIcon \o " **" \o item \o "/**"

binaryBullet(indent, item) ==
    indent \o "- " \o fileIcon \o " **" \o item \o "** (fichier binaire)"

oversizedBullet(indent, item, fileSize) ==
    indent \o "- " \o fileIcon \o " **" \o item \o "** (fichier trop volumineux: "
           \o toFixed2OfKilo(fileSize) \o " Ko)"

embeddedBullet(indent, item, lineCount) ==
    indent \o "- " \o fileIcon \o " **" \o item \o "** ("
           \o natToString(lineCount) \o " lignes)"

unreadableBullet(indent, item) ==
    indent \o "- " \o fileIcon \o " **" \o item \o "** (impossible de lire le contenu)"

\* the lines that follow the bullet of an embedded file, up to the blank line
\* after </details>
disclosureBlock(indent, fileContent, language) ==
    <<"", indent \o "  <details>", indent \o "  <summary>Voir le contenu</summary>", "">>
      \o prefixText(indent \o "  ", formatFileContent(fileContent, language))
      \o <<indent \o "  </details>", "">>

\* a variant that stops one level early
depthExceeded_OneEarly(finalConfig, currentDepth) ==
    StrictNotEqual(finalConfig.maxDepth, Num(-1))
      /\ ~finalConfig.maxDepth.nan /\ currentDepth >= finalConfig.maxDepth.v

\* the depth test at the head of generateProjectStructure
depthExceeded(finalConfig, currentDepth) ==
    StrictNotEqual(finalConfig.maxDepth, Num(-1))
      /\ Greater(Num(currentDepth), finalConfig.maxDepth)

\* a variant that also turns away a file of exactly maxFileSize bytes
tooLarge_OrEqual(fileSize, finalConfig) ==
    ~finalConfig.maxFileSize.nan /\ fileSize >= finalConfig.maxFileSize.v

\* fileSize > finalConfig.maxFileSize
tooLarge(fileSize, finalConfig) == Greater(Num(fileSize), finalConfig.maxFileSize)

\* the state of a call in progress: the markdown so far, and the log of the
\* paths handed to readFileSync (which an exception does not undo)
Going(markdown, log) == [threw |-> FALSE, message |-> "", markdown |-> markdown, log |-> log]
Failed(message, log) == [threw |-> TRUE, message |-> message, markdown |-> <<>>, log |-> log]

\* a variant that compares the extension as it is spelled
hasBinaryExtension_CaseSensitive(item, finalConfig) ==
    includes(finalConfig.binaryExtensions, extname(item))

\* finalConfig.binaryExtensions.includes(ext), ext being the extension of
\* item in lower case
hasBinaryExtension(item, finalConfig) ==
    includes(finalConfig.binaryExtensions, toLowerCase(extname(item)))

\* the else branch of the loop body for the file item at fullPath (node): the
\* lines it adds and the reads it makes, unless isBinaryFile throws
projectFile(fsys, node, item, fullPath, stats, indent, finalConfig, log) ==
    LET sniff == isBinaryFile(fsys, node, fullPath)
        file == readFileSync(fsys, node, fullPath, "content")
        fileContent == file.val.content
        lineCount == Len(fileContent)
        language == getLanguageFromExtension(item)
    IN IF hasBinaryExtension(item, finalConfig)
       THEN Going(<<Line(node, "entry", binaryBullet(indent, item))>>, log)
       ELSE IF sniff.threw THEN Failed(sniff.message, log \o <<fullPath>>)
       ELSE IF sniff.val
       THEN Going(<<Line(node, "entry", binaryBullet(indent, item))>>, log \o <<fullPath>>)
       ELSE IF tooLarge(stats.size, finalConfig)
       THEN Going(<<Line(node, "entry", oversizedBullet(indent, item, stats.size))>>,
                  log \o <<fullPath>>)
       ELSE IF file.threw
       THEN Going(<<Line(node, "entry", unreadableBullet(indent, item))>>,
                  log \o <<fullPath, fullPath>>)
       ELSE Going(<<Line(node, "entry", embeddedBullet(indent, item, lineCount))>>
                    \o Body(node, disclosureBlock(indent, fileContent, language)),
                  log \o <<fullPath, fullPath>>)

\* the outer catch clause of generateProjectStructure: what it returns for
\* the directory dir when error was thrown
projectCatch(dir, error) ==
    <<Line(dir, "error", "Erreur lors de la lecture du dossier: " \o error.message)>>

RECURSIVE generateProjectStructure(_, _, _, _, _, _)
RECURSIVE projectLoop(_, _, _, _, _, _, _)

\* for (const item of items) from index i on, st being the state so far
projectLoop(fsys, rootPath, items, i, finalConfig, currentDepth, st) ==
    IF i > Len(items) THEN st
    ELSE LET node == items[i]
             item == fsys[node].name
             isHidden == startsWith(item, ".")
             fullPath == join(rootPath, item)
             stats == statSync(fsys, node, fullPath, "outline")
             indent == repeat("  ", currentDepth)
             sub == generateProjectStructure(fsys, node, fullPath, finalConfig,
                                             currentDepth + 1, st.log)
             file == projectFile(fsys, node, item, fullPath, stats.val, indent,
                                 finalConfig, st.log)
         IN IF isHidden /\ ~finalConfig.includeHidden
            THEN projectLoop(fsys, rootPath, items, i + 1, finalConfig, currentDepth, st)
            ELSE IF stats.threw THEN Failed(stats.message, st.log)
            ELSE IF stats.val.isDirectory
            THEN IF includes(finalConfig.excludedFolders, item)
                 THEN projectLoop(fsys, rootPath, items, i + 1, finalConfig, currentDepth, st)
                 ELSE projectLoop(fsys, rootPath, items, i + 1, finalConfig, currentDepth,
                          Going(st.markdown
                                  \o <<Line(node, "entry", directoryBullet(indent, item))>>
                                  \o sub.markdown,
                                sub.log))
            ELSE IF includes(finalConfig.excludedFiles, item)
                 THEN projectLoop(fsys, rootPath, items, i + 1, finalConfig, currentDepth, st)
                 ELSE IF file.threw THEN file
                 ELSE projectLoop(fsys, rootPath, items, i + 1, finalConfig, currentDepth,
                          Going(st.markdown \o file.markdown, file.log))

\* generateProjectStructure(rootPath, config, currentDepth) where rootPath is
\* node dir and log the reads made before the call: the markdown it returns
\* and the log after it
generateProjectStructure(fsys, dir, rootPath, config, currentDepth, log) ==
    LET finalConfig == spread(defaultConfig, config)
        items == readdirSync(fsys, dir, rootPath)
        done == projectLoop(fsys, rootPath, items.val, 1, finalConfig, currentDepth,
                            Going(<<>>, log))
    IN IF depthExceeded(finalConfig, currentDepth) THEN Going(<<>>, log)
       ELSE IF items.threw THEN Going(projectCatch(dir, items), log)
       ELSE IF done.threw THEN Going(projectCatch(dir, done), done.log)
       ELSE done

----------------------------------------------------------------------------
(* parseArguments, showHelp, saveProjectStructure and the entry point *)

\* args[i]: <<>> for undefined (an index past the end), <<s>> for a string
argAt(args, i) == IF i <= Len(args) THEN <<args[i]>> ELSE <<>>

\* the text showHelp prints, by its first line
helpText == "Usage: export2md [options] [chemin]"

\* the state of the process while parseArguments runs: exit is <<>> or the
\* code handed to process.exit, threw the message of an uncaught exception
Parsing(opts, out, err) ==
    [options |-> opts, stdout |-> out, stderr |-> err, exit |-> <<>>, threw |-> <<>>]

\* the for loop of parseArguments from index i on
RECURSIVE parseLoop(_, _, _)
parseLoop(args, i, st) ==
    IF i > Len(args) THEN st
    ELSE LET value == argAt(args, i + 1)
             o == st.options
         IN CASE args[i] \in {"-o", "--output"} ->
                   parseLoop(args, i + 2, [st EXCEPT !.options.output = value])
              [] args[i] \in {"-d", "--depth"} ->
                   parseLoop(args, i + 2,
                       [st EXCEPT !.options.config = ("maxDepth" :> parseInt(value)) @@ o.config])
              [] args[i] \in {"-e", "--exclude"} ->
                   IF value = <<>>
                   THEN [st EXCEPT !.threw =
                            <<"TypeError: Cannot read properties of undefined (reading 'split')">>]
                   ELSE parseLoop(args, i + 2,
                            [st EXCEPT !.options.config =
                                ("excludedFolders" :>
                                    (defaultConfig.excludedFolders \o split(value[1], ",")))
                                  @@ o.config])
              [] args[i] \in {"-s", "--max-size"} ->
                   parseLoop(args, i + 2,
                       [st EXCEPT !.options.config =
                           ("maxFileSize" :> Times(parseInt(value), Num(1024))) @@ o.config])
              [] args[i] = "--include-hidden" ->
                   parseLoop(args, i + 1,
                       [st EXCEPT !.options.config = ("includeHidden" :> TRUE) @@ o.config])
              [] args[i] \in {"-h", "--help"} ->
                   [st EXCEPT !.stdout = @ \o <<helpText>>, !.exit = <<0>>]
              [] OTHER ->
                   IF startsWith(args[i], "-")
                   THEN [st EXCEPT !.stderr = @ \o <<"Option inconnue: " \o args[i]>>,
                                   !.stdout = @ \o <<helpText>>,
                                   !.exit = <<1>>]
                   ELSE parseLoop(args, i + 1, [st EXCEPT !.options.path = args[i]])

parseArguments(args) ==
    parseLoop(args, 1,
        Parsing([path |-> ".", output |-> <<"project-structure.md">>, config |-> <<>>],
                <<>>, <<>>))

\* path.basename of a relative path without a trailing separator
basename(path) == LET parts == split(path, "/") IN parts[Len(parts)]

\* the text of a sequence of output lines
texts(lines) == [k \in 1..Len(lines) |-> lines[k].text]

\* the lines of the document saveProjectStructure builds; now is the text of
\* new Date().toLocaleString('fr-FR').  Accented letters are written plain.
document(projectName, now, tree, detailed) ==
    <<"# Structure du projet " \o projectName, "",
      "Genere le " \o now, "",
      "## Vue arborescente", "",
      fence,
      folderIcon \o " " \o projectName \o "/">>
      \o texts(tree)
      \o <<fence, "",
           "## Structure detaillee avec contenu", "",
           folderIcon \o " **Racine du projet: " \o projectName \o "**", "">>
      \o texts(detailed)

\* saveProjectStructure(rootPath, outputPath, config): the values of its
\* locals and what it leaves on the disk, stdout and stderr.  outputPath is
\* <<>> when undefined, and then fs.writeFileSync throws a TypeError.
saveProjectStructure(fsys, rootPath, outputPath, config, now) ==
    LET projectName == basename(rootPath)
        finalConfig == spread(defaultConfig, config)
        root == lookup(fsys, rootPath)
        tree == generateTreeStructure(fsys, root, rootPath, finalConfig, "")
        detailed == generateProjectStructure(fsys, root, rootPath, finalConfig, 0, <<>>)
        content == document(projectName, now, tree, detailed.markdown)
    IN [treeStructure |-> tree,
        detailedStructure |-> detailed.markdown,
        opened |-> detailed.log,
        disk |-> IF outputPath = <<>> THEN <<>> ELSE <<<<outputPath[1], content>>>>,
        stdout |-> IF outputPath = <<>> THEN <<>>
                   ELSE <<"Structure du projet sauvegardee dans " \o outputPath[1]>>,
        stderr |-> IF outputPath = <<>>
                   THEN <<"TypeError [ERR_INVALID_ARG_TYPE]: The \"path\" argument must be of type string or an instance of Buffer or URL. Received undefined">>
                   ELSE <<>>,
        exit |-> IF outputPath = <<>> THEN 1 ELSE 0]

----------------------------------------------------------------------------
(* The state machine *)

\* the readings of the clock
Clock == {"06/11/2026 10:00:00"}

\* the nodes from node i up to the root's entry above it
RECURSIVE ancestorsOrSelf(_, _)
ancestorsOrSelf(fsys, i) ==
    IF i = 0 THEN {} ELSE {i} \cup ancestorsOrSelf(fsys, fsys[i].parent)

Init ==
    /\ scenario \in DOMAIN Scenarios
    /\ fs = <<>>
    /\ pc = "idle"
    /\ argv = <<>>
    /\ options = <<>>
    /\ stdout = <<>>
    /\ stderr = <<>>
    /\ exitCode = -1
    /\ traversed = FALSE
    /\ treeStructure = <<>>
    /\ detailedStructure = <<>>
    /\ opened = <<>>
    /\ disk = <<>>

\* The environment adds an entry to the tree.  fs lists the nodes in the
\* order of a depth-first walk, so the new entry goes at the end of the
\* listing of the root or of a directory on the path to the last node.
CreateEntry ==
    /\ pc = "idle"
    /\ Len(fs) < MaxNodes
    /\ \E e \in Scenarios[scenario].entries, p \in {0} \cup ancestorsOrSelf(fs, Len(fs)) :
          /\ p > 0 => fs[p].isDir
          /\ \A i \in 1..Len(fs) : fs[i].parent = p => fs[i].name # e.name
          /\ fs' = Append(fs, ("parent" :> p) @@ e)
    /\ UNCHANGED <<scenario, pc, argv, options, stdout, stderr, exitCode, traversed,
                   treeStructure, detailedStructure, opened, disk>>

\* The process runs from start to exit: the entry point calls parseArguments
\* and, unless that exits or throws, saveProjectStructure.
Run ==
    /\ pc = "idle"
    /\ \E args \in Scenarios[scenario].args, now \in Clock :
          LET parsed == parseArguments(args)
              saved == saveProjectStructure(fs, parsed.options.path, parsed.options.output,
                                            parsed.options.config, now)
          IN /\ argv' = args
             /\ options' = parsed.options
             /\ IF parsed.exit # <<>>
                THEN /\ stdout' = parsed.stdout
                     /\ stderr' = parsed.stderr
                     /\ exitCode' = parsed.exit[1]
                     /\ UNCHANGED <<traversed, treeStructure, detailedStructure, opened, disk>>
                ELSE IF parsed.threw # <<>>
                THEN /\ stdout' = parsed.stdout
                     /\ stderr' = parsed.stderr \o parsed.threw
                     /\ exitCode' = 1
                     /\ UNCHANGED <<traversed, treeStructure, detailedStructure, opened, disk>>
                ELSE /\ traversed' = TRUE
                     /\ treeStructure' = saved.treeStructure
                     /\ detailedStructure' = saved.detailedStructure
                     /\ opened' = saved.opened
                     /\ disk' = saved.disk
                     /\ stdout' = parsed.stdout \o saved.stdout
                     /\ stderr' = parsed.stderr \o saved.stderr
                     /\ exitCode' = saved.exit
    /\ pc' = "exited"
    /\ UNCHANGED <<scenario, fs>>

Next == CreateEntry \/ Run

Spec == Init /\ [][Next]_vars

----------------------------------------------------------------------------
(* Vocabulary of the properties *)

\* the configuration of the run
cfg == spread(defaultConfig, options.config)

\* the node the walk starts from (-1 when the path does not exist)
root == lookup(fs, options.path)

\* node i lies somewhere below node d
RECURSIVE Below(_, _)
Below(i, d) ==
    IF i <= 0 THEN FALSE
    ELSE fs[i].parent = d \/ Below(fs[i].parent, d)

\* the entries below the root of the walk
Walked == {i \in 1..Len(fs) : Below(i, root)}

\* the directories above an entry of Walked, up to the one listed by the root
Above(i) == {d \in Walked : Below(i, d)}

\* the depth of an entry of Walked: 0 for the entries of the root
DepthOf(i) == Cardinality(Above(i))

\* the path of an entry of Walked
RECURSIVE PathOf(_)
PathOf(i) ==
    IF fs[i].parent = root THEN join(options.path, fs[i].name)
    ELSE join(PathOf(fs[i].parent), fs[i].name)

endsWith(s, p) == Len(s) >= Len(p) /\ SubSeq(s, Len(s) - Len(p) + 1, Len(s)) = p

\* the three rules that prune by name
HiddenAway(i) == ~cfg.includeHidden /\ startsWith(fs[i].name, ".")
NamedOut(i) ==
    \/ HiddenAway(i)
    \/ fs[i].isDir /\ includes(cfg.excludedFolders, fs[i].name)
    \/ ~fs[i].isDir /\ includes(cfg.excludedFiles, fs[i].name)

\* the entry or a directory above it is pruned by name
Pruned(i) == \E j \in Above(i) \cup {i} : NamedOut(j)

\* the lines of an output that were emitted for entry i
LinesOf(out, i) == SelectSeq(out, LAMBDA l : l.entry = i)

\* the "entry" lines of an output that were emitted for entry i
EntryLinesOf(out, i) == SelectSeq(out, LAMBDA l : l.entry = i /\ l.role = "entry")

HasEntryLine(out, i) == \E k \in 1..Len(out) : out[k].entry = i /\ out[k].role = "entry"

\* the output reports that the listing of the root or of a directory above
\* entry i was given up on an error
GivenUpAbove(out, i) ==
    \E k \in 1..Len(out) : out[k].role = "error" /\ out[k].entry \in Above(i) \cup {root}

IsUnreadableBullet(l) ==
    l.role = "entry" /\ endsWith(l.text, "(impossible de lire le contenu)")

\* neither walk met a read error
NoReadError ==
    /\ \A k \in 1..Len(treeStructure) : treeStructure[k].role # "error"
    /\ \A k \in 1..Len(detailedStructure) :
          detailedStructure[k].role # "error" /\ ~IsUnreadableBullet(detailedStructure[k])

\* what an entry line shows: the path of its entry, and whether the line is
\* that of a directory (the name is followed by "/")
ShownInTree(l) == [path |-> PathOf(l.entry), dir |-> endsWith(l.text, "/")]
ShownInOutline(l) == [path |-> PathOf(l.entry), dir |-> endsWith(l.text, "/**")]

TreeEntries ==
    LET only == SelectSeq(treeStructure, LAMBDA l : l.role = "entry")
    IN [k \in 1..Len(only) |-> ShownInTree(only[k])]

OutlineEntries ==
    LET only == SelectSeq(detailedStructure, LAMBDA l : l.role = "entry")
    IN [k \in 1..Len(only) |-> ShownInOutline(only[k])]

\* the entries that pass the three rules, in depth-first listing order
PassingEntries ==
    LET only == SelectSeq([i \in 1..Len(fs) |-> i],
                          LAMBDA i : i \in Walked /\ ~Pruned(i))
    IN [k \in 1..Len(only) |-> [path |-> PathOf(only[k]), dir |-> fs[only[k]].isDir]]

----------------------------------------------------------------------------
(* C2: same entries, same order, in the tree and in the outline *)

\* C2: with maxDepth = -1 and no read error, the entries (path and kind) of
\* the tree lines and of the outline's bullet lines are the same sequence:
\* the entries that pass the hidden, excludedFolders and excludedFiles
\* rules, in depth-first listing order.
C2_SameEntriesSameOrder ==
    (traversed /\ cfg.maxDepth = Num(-1) /\ NoReadError)
        => /\ TreeEntries = OutlineEntries
           /\ TreeEntries = PassingEntries

\* a run with maxDepth = -1 and no read error on a tree with a pruned entry
\* and a nested entry that is shown
C2_Witness ==
    /\ traversed /\ cfg.maxDepth = Num(-1) /\ NoReadError
    /\ \E i \in Walked : Pruned(i)
    /\ \E i \in Walked : ~Pruned(i) /\ DepthOf(i) = 1
    /\ Len(TreeEntries) >= 2

----------------------------------------------------------------------------
(* C7: entries pruned by name *)

\* C7: an entry pruned by name (a directory in excludedFolders, a file in
\* excludedFiles, a hidden entry when includeHidden is false), and everything
\* beneath a pruned directory, has no line in the tree nor in the outline.
C7_PrunedNowhere ==
    traversed =>
        \A i \in Walked : Pruned(i) =>
            /\ LinesOf(treeStructure, i) = <<>>
            /\ LinesOf(detailedStructure, i) = <<>>

\* a run that shows some entry, on a tree where a file sits in a directory
\* pruned by name
C7_Witness ==
    /\ traversed
    /\ \E d \in Walked, f \in Walked :
          /\ fs[d].isDir /\ NamedOut(d) /\ Below(f, d) /\ ~NamedOut(f)
    /\ \E i \in Walked : HasEntryLine(treeStructure, i) /\ HasEntryLine(detailedStructure, i)

----------------------------------------------------------------------------
(* The outline: depth limit and classification of files *)

\* the depth limit lets the outline list the directory that holds entry i
WithinDepth(i) ==
    \/ cfg.maxDepth.nan
    \/ cfg.maxDepth.v = -1
    \/ DepthOf(i) <= cfg.maxDepth.v

\* The outline's walk came to entry i and kept what it emitted for it: the
\* entry passes the rules by name and the depth limit, and no listing above
\* it was given up on an error.
Reached(i) ==
    /\ i \in Walked
    /\ ~Pruned(i)
    /\ WithinDepth(i)
    /\ ~GivenUpAbove(detailedStructure, i)

IndentOf(i) == repeat("  ", DepthOf(i))

\* C5: started at depth 0 on the root, the outline lists the entries of a
\* directory at every depth when maxDepth = -1, and when maxDepth = m >= 0 if
\* and only if the directory is at depth <= m (the root is at depth 0): a
\* directory at depth m + 1 has its own bullet and nothing beneath it is
\* emitted.
C5_DepthLimit ==
    (traversed /\ ~cfg.maxDepth.nan /\ cfg.maxDepth.v >= -1) =>
        \A i \in Walked :
            /\ Reached(i) => HasEntryLine(detailedStructure, i)
            /\ ~WithinDepth(i) => LinesOf(detailedStructure, i) = <<>>

\* a run with maxDepth = 1 where a directory at depth 2 has its bullet and
\* holds an entry that passes the rules by name and is not emitted
C5_Witness ==
    /\ traversed /\ cfg.maxDepth \in {Num(0), Num(1)}
    /\ \E d \in Walked, i \in Walked :
          /\ fs[d].isDir /\ DepthOf(d) = cfg.maxDepth.v
          /\ HasEntryLine(detailedStructure, d)
          /\ fs[i].parent = d /\ ~Pruned(i) /\ LinesOf(detailedStructure, i) = <<>>
          /\ cfg.maxDepth.v = 1

----------------------------------------------------------------------------
(* C3: binary files *)

BinaryByExtension(i) ==
    includes(cfg.binaryExtensions, toLowerCase(extname(fs[i].name)))

WasOpened(i) == \E k \in 1..Len(opened) : opened[k] = PathOf(i)

----------------------------------------------------------------------------
(* C4: the size cap *)

\* a file the outline reaches and does not classify as binary
ReachedText(i) ==
    ~fs[i].isDir /\ Reached(i) /\ ~BinaryByExtension(i) /\ ~fs[i].nul

Oversized(i) == ~cfg.maxFileSize.nan /\ fs[i].size > cfg.maxFileSize.v

\* the lines of a file embedded with its content
EmbeddedLines(i) ==
    <<Line(i, "entry", embeddedBullet(IndentOf(i), fs[i].name, Len(fs[i].content)))>>
      \o Body(i, disclosureBlock(IndentOf(i), fs[i].content,
                                 getLanguageFromExtension(fs[i].name)))

IsSizeBullet(i, l) ==
    /\ l = Line(i, "entry", oversizedBullet(IndentOf(i), fs[i].name, fs[i].size))
    /\ endsWith(l.text, " Ko)")
    /\ fs[i].size = 1025 => endsWith(l.text, "(fichier trop volumineux: 1.00 Ko)")

\* C4 as claimed: a reached file that is not binary gets the size bullet (in
\* kilobytes) and no content when its size is > maxFileSize, and is embedded
\* with its content when its size is <= maxFileSize.
C4_Claimed ==
    traversed =>
        \A i \in Walked : ReachedText(i) =>
            IF Oversized(i)
            THEN /\ Len(LinesOf(detailedStructure, i)) = 1
                 /\ IsSizeBullet(i, LinesOf(detailedStructure, i)[1])
            ELSE LinesOf(detailedStructure, i) = EmbeddedLines(i)

\* C4 as amended: the same, except that a file of size <= maxFileSize whose
\* content cannot be read (it was removed after the zero-byte sniff) gets
\* the "content unreadable" bullet and no content.
C4_SizeCap ==
    traversed =>
        \A i \in Walked : ReachedText(i) =>
            IF Oversized(i)
            THEN /\ Len(LinesOf(detailedStructure, i)) = 1
                 /\ IsSizeBullet(i, LinesOf(detailedStructure, i)[1])
            ELSE IF fs[i].fault = "gone3"
            THEN LinesOf(detailedStructure, i)
                   = <<Line(i, "entry", unreadableBullet(IndentOf(i), fs[i].name))>>
            ELSE LinesOf(detailedStructure, i) = EmbeddedLines(i)

\* a run with maxFileSize = 1024 that reaches a text file of 1024 bytes and
\* one of 1025 bytes
C4_Witness ==
    /\ traversed /\ cfg.maxFileSize = Num(1024)
    /\ \E i \in Walked : ReachedText(i) /\ fs[i].size = 1024
    /\ \E i \in Walked : ReachedText(i) /\ fs[i].size = 1025

----------------------------------------------------------------------------
(* The tree: failures and connectors *)

\* the directories the walks can come to: the root and the directories below
Directories == {root} \cup {d \in Walked : fs[d].isDir}

PathOfDirectory(d) == IF d = root THEN options.path ELSE PathOf(d)

\* the entries of directory d, in listing order
Listing(d) == SelectSeq([i \in 1..Len(fs) |-> i], LAMBDA i : fs[i].parent = d)

\* the entries of directory d that pass the rules by name, in listing order
FilteredListing(d) == SelectSeq(Listing(d), LAMBDA i : ~NamedOut(i))

\* entry c is followed by an entry that passes the rules by name
HasLaterSibling(c) ==
    \E s \in 1..Len(fs) : fs[s].parent = fs[c].parent /\ s > c /\ ~NamedOut(s)

\* the three ways the tree renderer can fail at directory d: its listing
\* fails, the stat of an entry fails while filtering, or while rendering
ListingFails(d) == readdirSync(fs, d, PathOfDirectory(d)).threw
FilterFails(d) ==
    \E c \in 1..Len(fs) :
        fs[c].parent = d /\ ~HiddenAway(c) /\ statSync(fs, c, PathOf(c), "filter").threw
RenderFails(d) ==
    \E c \in 1..Len(fs) :
        fs[c].parent = d /\ ~NamedOut(c) /\ statSync(fs, c, PathOf(c), "render").threw
TreeFails(d) == ListingFails(d) \/ FilterFails(d) \/ RenderFails(d)

\* the tree renderer is called on directory d
TreeVisits(d) ==
    /\ d \in Directories
    /\ d # root => ~Pruned(d) /\ \A a \in Above(d) \cup {root} : ~TreeFails(a)

\* the positions of the lines of an output emitted for entry i with a role
PositionsOf(out, i, role) ==
    {k \in 1..Len(out) : out[k].entry = i /\ out[k].role = role}

\* the failure at directory d shows as one "Erreur: <message>" line, placed
\* right after the line of d (alone, when d is the root)
ErrorInline(d) ==
    /\ Cardinality(PositionsOf(treeStructure, d, "error")) = 1
    /\ \A k \in PositionsOf(treeStructure, d, "error") :
          /\ startsWith(treeStructure[k].text, "Erreur: ")
          /\ Len(treeStructure[k].text) > Len("Erreur: ")
          /\ IF d = root THEN Len(treeStructure) = 1
             ELSE k > 1 /\ treeStructure[k - 1].entry = d
                        /\ treeStructure[k - 1].role = "entry"

\* the lines of the entries outside directory d are those of a run without
\* the failure: every entry whose own directory is rendered has its line
OthersIntact(d) ==
    \A s \in Walked :
        (~Below(s, d) /\ ~Pruned(s) /\ TreeVisits(fs[s].parent) /\ ~TreeFails(fs[s].parent))
            => HasEntryLine(treeStructure, s)

\* the entries of directory d rendered before the stat that fails while
\* rendering: those of the filtered listing before the first that fails
RenderedBeforeFailure(d) ==
    {s \in 1..Len(fs) :
        /\ fs[s].parent = d /\ ~NamedOut(s)
        /\ \A c \in 1..Len(fs) :
              (fs[c].parent = d /\ ~NamedOut(c) /\ c <= s)
                  => ~statSync(fs, c, PathOf(c), "render").threw}

\* the failure did not reach the caller: the document was written
NotPropagated == options.output # <<>> => (exitCode = 0 /\ Len(disk) = 1)

\* C6 as claimed: a failure at a directory of the tree gives an inline
\* "Erreur: <message>" line there, does not reach the caller, and leaves the
\* tree lines already rendered intact, in the directories above and in the
\* directory of the failure.
C6_Claimed ==
    traversed =>
        \A d \in Directories : (TreeVisits(d) /\ TreeFails(d)) =>
            /\ ErrorInline(d)
            /\ NotPropagated
            /\ OthersIntact(d)
            /\ (~ListingFails(d) /\ ~FilterFails(d)) =>
                  \A s \in RenderedBeforeFailure(d) : HasEntryLine(treeStructure, s)

\* What the code does at a failure (C6): the same for the directories above;
\* in the directory of the failure the error line replaces every line, those
\* already rendered for its entries included.
C6_ErrorInline ==
    traversed =>
        \A d \in Directories : (TreeVisits(d) /\ TreeFails(d)) =>
            /\ ErrorInline(d)
            /\ NotPropagated
            /\ OthersIntact(d)
            /\ \A s \in Walked : Below(s, d) => LinesOf(treeStructure, s) = <<>>

\* a run where a sub-directory fails after an entry of the root was
\* rendered and before another one is (C6)
C6_Witness ==
    /\ traversed
    /\ \E d \in Walked, s \in Walked, t \in Walked :
          /\ TreeVisits(d) /\ TreeFails(d)
          /\ fs[s].parent = root /\ s < d /\ HasEntryLine(treeStructure, s)
          /\ fs[t].parent = root /\ t > d /\ HasEntryLine(treeStructure, t)

----------------------------------------------------------------------------
(* C10: connectors and prefixes of the tree *)

\* the prefix of the lines beneath directory d: that of its parent, extended
\* by the continuation bar when d has later siblings in the filtered listing
\* and by a blank when it is the last one
RECURSIVE PrefixBeneath(_)
PrefixBeneath(d) ==
    IF d = root THEN ""
    ELSE PrefixBeneath(fs[d].parent)
           \o (IF HasLaterSibling(d) THEN treeChars.pipe ELSE treeChars.blank) \o "  "

\* the line of entry c: the last of the filtered listing has the corner,
\* the others the tee
ExpectedTreeLine(c) ==
    PrefixBeneath(fs[c].parent)
      \o (IF HasLaterSibling(c) THEN treeChars.tee ELSE treeChars.last)
      \o treeChars.dash \o " "
      \o (IF fs[c].isDir THEN folderIcon \o " " \o fs[c].name \o "/"
                         ELSE fileIcon \o " " \o fs[c].name)

ConnectorsRight ==
    \A d \in Directories : (TreeVisits(d) /\ ~TreeFails(d)) =>
        \A k \in 1..Len(FilteredListing(d)) :
            LET c == FilteredListing(d)[k]
            IN EntryLinesOf(treeStructure, c) = <<Line(c, "entry", ExpectedTreeLine(c))>>

\* line l was emitted beneath the entry of directory d
IsBeneath(l, d) == Below(l.entry, d) \/ (l.role = "error" /\ l.entry = d)

\* C10 as claimed: the last entry of the filtered listing has the corner and
\* the others the tee, and every line beneath a directory entry starts with
\* the prefix of the parent extended by the bar or the blank.
C10_Claimed ==
    traversed =>
        /\ ConnectorsRight
        /\ \A d \in Walked : \A k \in 1..Len(treeStructure) :
              IsBeneath(treeStructure[k], d)
                  => startsWith(treeStructure[k].text, PrefixBeneath(d))

\* C10 as amended: the same for every entry line beneath a directory entry;
\* the "Erreur:" line of a directory that could not be read has no prefix.
C10_Connectors ==
    traversed =>
        /\ ConnectorsRight
        /\ \A d \in Walked : \A k \in 1..Len(treeStructure) :
              IsBeneath(treeStructure[k], d) =>
                  IF treeStructure[k].role = "entry"
                  THEN startsWith(treeStructure[k].text, PrefixBeneath(d))
                  ELSE startsWith(treeStructure[k].text, "Erreur: ")

\* a run whose tree shows a directory with a later sibling and an entry
\* beneath it, where the last entry of the filtered listing of the root is
\* not the last of its listing
C10_Witness ==
    /\ traversed
    /\ \E d \in Walked, c \in Walked :
          /\ fs[d].parent = root /\ HasLaterSibling(d)
          /\ fs[c].parent = d /\ HasEntryLine(treeStructure, c)
    /\ \E c \in Walked :
          /\ fs[c].parent = root /\ HasEntryLine(treeStructure, c) /\ ~HasLaterSibling(c)
          /\ c # Listing(root)[Len(Listing(root))]

----------------------------------------------------------------------------
(* C1: read errors in the outline *)

\* the outline reads file i and the read throws: the zero-byte sniff, made
\* unless the extension is binary, or the content read, made when the sniff
\* found no zero byte and the file is not too large
ReadErrorOn(i) ==
    /\ ~BinaryByExtension(i)
    /\ \/ readFileSync(fs, i, PathOf(i), "sniff").threw
       \/ ~fs[i].nul /\ ~Oversized(i) /\ readFileSync(fs, i, PathOf(i), "content").threw

\* C1 as claimed: a read error on a file of a listing, in the zero-byte sniff
\* or in the content read, becomes exactly one "content unreadable" bullet
\* for that file, and the bullets of its earlier and later siblings are in
\* the outline returned.  (Stated for a tree where nothing else fails.)
C1_Claimed ==
    traversed =>
        \A f \in Walked :
            ( /\ ~fs[f].isDir /\ ~Pruned(f) /\ WithinDepth(f)
              /\ \A j \in 1..Len(fs) : j # f => fs[j].fault = "none"
              /\ ReadErrorOn(f) )
            => /\ LinesOf(detailedStructure, f)
                    = <<Line(f, "entry", unreadableBullet(IndentOf(f), fs[f].name))>>
               /\ \A s \in Walked :
                     (fs[s].parent = fs[f].parent /\ ~NamedOut(s))
                         => HasEntryLine(detailedStructure, s)

----------------------------------------------------------------------------
(* C8: indentation of the outline *)

\* C8 as claimed: every line emitted for an entry at depth d, a bullet or a
\* line of a disclosure block (the lines of the embedded content included),
\* starts with d repetitions of the two-space unit.  (Blank lines aside.)
C8_Claimed ==
    traversed =>
        \A k \in 1..Len(detailedStructure) :
            LET l == detailedStructure[k]
            IN (l.role \in {"entry", "body"} /\ l.text # "")
                   => startsWith(l.text, IndentOf(l.entry))

----------------------------------------------------------------------------
(* C9: invalid usage *)

ValueOptions == {"-o", "--output", "-d", "--depth", "-e", "--exclude", "-s", "--max-size"}
Flags == {"--include-hidden", "-h", "--help"}

\* the command line, read from token i on, has an unknown flag or ends with
\* an option whose value is missing
RECURSIVE InvalidUsage(_, _)
InvalidUsage(args, i) ==
    IF i > Len(args) THEN FALSE
    ELSE IF args[i] \in ValueOptions THEN i = Len(args) \/ InvalidUsage(args, i + 2)
    ELSE IF args[i] \in Flags THEN InvalidUsage(args, i + 1)
    ELSE startsWith(args[i], "-") \/ InvalidUsage(args, i + 1)

\* C9 as claimed: invalid usage, an unknown flag or a missing value alike,
\* gives an error message on standard error, the help text and a non-zero
\* exit, and neither a traversal nor a write is started.
C9_Claimed ==
    (pc = "exited" /\ InvalidUsage(argv, 1)) =>
        /\ stderr # <<>>
        /\ \E k \in 1..Len(stdout) : stdout[k] = helpText
        /\ exitCode # 0
        /\ ~traversed
        /\ disk = <<>>

====
